---------------------------- MODULE Spec2Model ----------------------------
(***************************************************************************)
(* A model of wine_converter_app.py: the text cleaning and number parsing  *)
(* functions, the conversion of a table to the wine list and the merge     *)
(* with the two static lists.                                              *)
(*                                                                         *)
(* A Python str is a sequence of one-character strings.  A Python value    *)
(* (a cell of the DataFrame, a column label) is a record [kind, s] where   *)
(* s is what str() returns for it and kind is "str", "int" or "float".     *)
(* A number returned by parse_number is a record [kind, m, e] standing for *)
(* m * 10^e; doubles are treated as exact decimals.                        *)
(***************************************************************************)
EXTENDS Integers, Sequences, FiniteSets, TLC

VARIABLES pc, text, flag, out, out2, df, wines, complete_data

vars == <<pc, text, flag, out, out2, df, wines, complete_data>>

(***************************************************************************)
(* Bounds of the model.                                                    *)
(***************************************************************************)
MaxLen == 5

MaxNumLen == 5

MaxCols == 2

MaxRows == 1

(***************************************************************************)
(* Characters.                                                             *)
(***************************************************************************)
Digits == {"0", "1", "2", "3", "4", "5", "6", "7", "8", "9"}

LowerLetters ==
    {"a", "b", "c", "d", "e", "f", "g", "h", "i", "j", "k", "l", "m",
     "n", "o", "p", "q", "r", "s", "t", "u", "v", "w", "x", "y", "z"}

UpperLetters ==
    {"A", "B", "C", "D", "E", "F", "G", "H", "I", "J", "K", "L", "M",
     "N", "O", "P", "Q", "R", "S", "T", "U", "V", "W", "X", "Y", "Z"}

\* str.isspace / the regular expression class \s
Whitespace == {" ", "\t", "\n", "\r", "\f"}

\* the regular expression class \w
WordChars == Digits \cup LowerLetters \cup UpperLetters \cup {"_"}

IsSpace(c) == c \in Whitespace

IsDigit(c) == c \in Digits

IsWord(c) == c \in WordChars

LowerPairs ==
    {<<"A", "a">>, <<"B", "b">>, <<"C", "c">>, <<"D", "d">>, <<"E", "e">>,
     <<"F", "f">>, <<"G", "g">>, <<"H", "h">>, <<"I", "i">>, <<"J", "j">>,
     <<"K", "k">>, <<"L", "l">>, <<"M", "m">>, <<"N", "n">>, <<"O", "o">>,
     <<"P", "p">>, <<"Q", "q">>, <<"R", "r">>, <<"S", "s">>, <<"T", "t">>,
     <<"U", "u">>, <<"V", "v">>, <<"W", "w">>, <<"X", "x">>, <<"Y", "y">>,
     <<"Z", "z">>}

LowerOf == [c \in UpperLetters |-> (CHOOSE p \in LowerPairs : p[1] = c)[2]]

LowerChar(c) == IF c \in UpperLetters THEN LowerOf[c] ELSE c

DigitPairs ==
    {<<"0", 0>>, <<"1", 1>>, <<"2", 2>>, <<"3", 3>>, <<"4", 4>>,
     <<"5", 5>>, <<"6", 6>>, <<"7", 7>>, <<"8", 8>>, <<"9", 9>>}

DigitOf == [c \in Digits |-> (CHOOSE p \in DigitPairs : p[1] = c)[2]]

DigitVal(c) == DigitOf[c]

(***************************************************************************)
(* str methods.                                                            *)
(***************************************************************************)
\* s[i:j] with 0-based i (inclusive) and j (exclusive), 0 <= i, j <= len(s)
Slice(s, i, j) == IF j <= i THEN <<>> ELSE SubSeq(s, i + 1, j)

\* str.lower
Lower(s) == [i \in 1..Len(s) |-> LowerChar(s[i])]

\* str.strip: drop the leading and the trailing whitespace
Strip(s) ==
    LET keep == {i \in 1..Len(s) : ~IsSpace(s[i])}
    IN  IF keep = {} THEN <<>>
        ELSE LET lo == CHOOSE i \in keep : \A j \in keep : i <= j
                 hi == CHOOSE i \in keep : \A j \in keep : j <= i
             IN  SubSeq(s, lo, hi)

\* str.startswith('"')
StartsWithQuote(s) == Len(s) >= 1 /\ s[1] = "\""

\* str.endswith('"')
EndsWithQuote(s) == Len(s) >= 1 /\ s[Len(s)] = "\""

RECURSIVE SplitFrom(_, _, _)
\* the pieces of s from position i on, cur being the piece collected so far
SplitFrom(s, i, cur) ==
    IF i > Len(s) THEN <<cur>>
    ELSE IF s[i] = "\n" THEN <<cur>> \o SplitFrom(s, i + 1, <<>>)
    ELSE SplitFrom(s, i + 1, Append(cur, s[i]))

\* str.split('\n'): always at least one piece
SplitLines(s) == SplitFrom(s, 1, <<>>)

RECURSIVE JoinLines(_)
\* '\n'.join(lines)
JoinLines(lines) ==
    IF Len(lines) = 0 THEN <<>>
    ELSE IF Len(lines) = 1 THEN lines[1]
    ELSE lines[1] \o <<"\n">> \o JoinLines(Tail(lines))

(***************************************************************************)
(* Regular expressions of clean_text.                                      *)
(***************************************************************************)
\* SubLineBreaks replacing nothing
SubLineBreaksNone(s) == s

RECURSIVE SubLineBreaks(_)
\* re.sub(r'\r\n|\r', '\n', s)
SubLineBreaks(s) ==
    IF Len(s) = 0 THEN <<>>
    ELSE IF s[1] = "\r" /\ Len(s) >= 2 /\ s[2] = "\n"
         THEN <<"\n">> \o SubLineBreaks(SubSeq(s, 3, Len(s)))
    ELSE IF s[1] = "\r" THEN <<"\n">> \o SubLineBreaks(Tail(s))
    ELSE <<s[1]>> \o SubLineBreaks(Tail(s))

RECURSIVE SubSpaces(_)
\* re.sub(r'\s+', ' ', s): every maximal run of whitespace becomes one space
SubSpaces(s) ==
    IF Len(s) = 0 THEN <<>>
    ELSE IF IsSpace(s[1])
         THEN IF Len(s) >= 2 /\ IsSpace(s[2]) THEN SubSpaces(Tail(s))
              ELSE <<" ">> \o SubSpaces(Tail(s))
    ELSE <<s[1]>> \o SubSpaces(Tail(s))

(***************************************************************************)
(* Python values.                                                          *)
(***************************************************************************)
StrVal(s) == [kind |-> "str", s |-> s]

IntVal(s) == [kind |-> "int", s |-> s]

FloatVal(s) == [kind |-> "float", s |-> s]

\* float('nan'), what pandas puts in an empty cell
NaN == FloatVal(<<"n", "a", "n">>)

\* str(value)
Str(v) == v.s

\* `not value`: the empty str, the int 0, the float 0.0
Falsy(v) ==
    \/ v.kind = "str" /\ v.s = <<>>
    \/ v.kind = "int" /\ v.s = <<"0">>
    \/ v.kind = "float" /\ v.s = <<"0", ".", "0">>

\* IsAbsent comparing str(text) with 'nan' without lowering it
IsAbsentCaseSensitive(v) ==
    \/ Falsy(v)
    \/ Strip(Str(v)) = <<>>
    \/ Str(v) = <<"n", "a", "n">>

\* the test that opens clean_text and parse_number
IsAbsent(v) ==
    \/ Falsy(v)
    \/ Strip(Str(v)) = <<>>
    \/ Lower(Str(v)) = <<"n", "a", "n">>

(***************************************************************************)
(* clean_text                                                              *)
(***************************************************************************)
\* the wrapping quotes are removed when text starts and ends with '"'
Unquote(s) ==
    IF StartsWithQuote(s) /\ EndsWithQuote(s) THEN Slice(s, 1, Len(s) - 1) ELSE s

\* the preserve_line_breaks branch
CleanLines(s) ==
    LET lines == SplitLines(SubLineBreaks(s))
        stripped == [i \in 1..Len(lines) |-> Strip(lines[i])]
        NonEmpty(line) == line # <<>>
    IN  JoinLines(SelectSeq(stripped, NonEmpty))

\* the default branch
CleanSpaces(s) == SubSpaces(Strip(s))

clean_text(v, preserve_line_breaks) ==
    IF IsAbsent(v) THEN <<>>
    ELSE IF preserve_line_breaks THEN CleanLines(Unquote(Str(v)))
    ELSE CleanSpaces(Unquote(Str(v)))

(***************************************************************************)
(* Numbers: a result of parse_number, or the exception it ends with.       *)
(***************************************************************************)
None == [kind |-> "None", m |-> 0, e |-> 0]

IntRes(n) == [kind |-> "int", m |-> n, e |-> 0]

Raised(name) == [kind |-> name, m |-> 0, e |-> 0]

\* float infinity: m is its sign
Inf(sign) == [kind |-> "inf", m |-> sign, e |-> 0]

NanRes == [kind |-> "nan", m |-> 0, e |-> 0]

RECURSIVE Pow10(_)
Pow10(k) == IF k <= 0 THEN 1 ELSE 10 * Pow10(k - 1)

RECURSIVE Normal(_, _)
\* the float m * 10^e, written with the mantissa that has no trailing zero
Normal(m, e) ==
    IF m = 0 THEN [kind |-> "float", m |-> 0, e |-> 0]
    ELSE IF m % 10 = 0 THEN Normal(m \div 10, e + 1)
    ELSE [kind |-> "float", m |-> m, e |-> e]

RECURSIVE IntOfDigits(_)
\* int(s) for a str of digits
IntOfDigits(s) ==
    IF Len(s) = 0 THEN 0
    ELSE 10 * IntOfDigits(SubSeq(s, 1, Len(s) - 1)) + DigitVal(s[Len(s)])

(***************************************************************************)
(* float(s).  The literal is an optional sign followed by inf, infinity or *)
(* nan in any case, or by digits with at most one point.  The exponent     *)
(* form and the underscore separator are not modelled: no input of the     *)
(* model spells them.                                                      *)
(***************************************************************************)
Signed(s) == Len(s) >= 1 /\ s[1] \in {"+", "-"}

Unsigned(s) == IF Signed(s) THEN Tail(s) ELSE s

SignOf(s) == IF Len(s) >= 1 /\ s[1] = "-" THEN -1 ELSE 1

IsDecimal(b) ==
    /\ \A i \in 1..Len(b) : IsDigit(b[i]) \/ b[i] = "."
    /\ Cardinality({i \in 1..Len(b) : b[i] = "."}) <= 1
    /\ \E i \in 1..Len(b) : IsDigit(b[i])

\* the value of digits with at most one point
DecimalValue(b) ==
    LET IsDig(c) == IsDigit(c)
        dots == {i \in 1..Len(b) : b[i] = "."}
        frac == IF dots = {} THEN 0 ELSE Len(b) - (CHOOSE i \in dots : TRUE)
    IN  <<IntOfDigits(SelectSeq(b, IsDig)), -frac>>

Float(s) ==
    LET t == Strip(s)
        b == Unsigned(t)
    IN  IF Lower(b) \in {<<"i", "n", "f">>,
                         <<"i", "n", "f", "i", "n", "i", "t", "y">>}
        THEN Inf(SignOf(t))
        ELSE IF Lower(b) = <<"n", "a", "n">> THEN NanRes
        ELSE IF IsDecimal(b)
             THEN LET d == DecimalValue(b) IN Normal(SignOf(t) * d[1], d[2])
        ELSE Raised("ValueError")

\* int(x) for the outcome x of float(): truncation toward zero
IntOfFloat(x) ==
    IF x.kind = "inf" THEN Raised("OverflowError")
    ELSE IF x.kind = "nan" THEN Raised("ValueError")
    ELSE IF x.kind # "float" THEN x
    ELSE IF x.e >= 0 THEN IntRes(x.m * Pow10(x.e))
    ELSE IF x.m >= 0 THEN IntRes(x.m \div Pow10(-x.e))
    ELSE IntRes(-((-x.m) \div Pow10(-x.e)))

\* x / 100.0 for the outcome x of float()
DivHundred(x) == IF x.kind = "float" THEN Normal(x.m, x.e - 2) ELSE x

(***************************************************************************)
(* Regular expressions of parse_number.                                    *)
(***************************************************************************)
\* the positions where \b(\d{4})\b matches
YearStarts(s) ==
    {i \in 1..Len(s) :
        /\ i + 3 <= Len(s)
        /\ \A k \in 0..3 : IsDigit(s[i + k])
        /\ (i = 1 \/ ~IsWord(s[i - 1]))
        /\ (i + 3 = Len(s) \/ ~IsWord(s[i + 4]))}

\* group(1) of re.search(r'\b(\d{4})\b', s), <<>> when there is no match
YearMatch(s) ==
    IF YearStarts(s) = {} THEN <<>>
    ELSE LET i == CHOOSE i \in YearStarts(s) : \A j \in YearStarts(s) : i <= j
         IN  SubSeq(s, i, i + 3)

IsNumChar(c) == IsDigit(c) \/ c = "."

\* group(1) of re.search(r'([\d.]+)%?', s), <<>> when there is no match
PercentMatch(s) ==
    LET starts == {i \in 1..Len(s) : IsNumChar(s[i])}
    IN  IF starts = {} THEN <<>>
        ELSE LET i == CHOOSE i \in starts : \A j \in starts : i <= j
                 stops == {j \in i..Len(s) :
                              /\ \A k \in i..j : IsNumChar(s[k])
                              /\ (j = Len(s) \/ ~IsNumChar(s[j + 1]))}
             IN  SubSeq(s, i, CHOOSE j \in stops : TRUE)

(***************************************************************************)
(* parse_number                                                            *)
(***************************************************************************)
\* the body of the try block
ParseBody(s, is_float) ==
    IF ~is_float
    THEN LET year_match == YearMatch(s)
         IN  IF year_match # <<>> THEN IntRes(IntOfDigits(year_match))
             ELSE IntOfFloat(Float(s))
    ELSE LET percent_match == PercentMatch(s)
         IN  IF percent_match # <<>> THEN DivHundred(Float(percent_match))
             ELSE DivHundred(Float(s))

\* except (ValueError, TypeError): return None
Except(r) == IF r.kind \in {"ValueError", "TypeError"} THEN None ELSE r

parse_number(v, is_float) ==
    IF IsAbsent(v) THEN None
    ELSE LET cleaned == clean_text(StrVal(Str(v)), FALSE)
         IN  Except(ParseBody(cleaned, is_float))

IsException(r) == r.kind \in {"OverflowError", "ValueError", "TypeError"}

(***************************************************************************)
(* convert_csv_to_json                                                     *)
(*                                                                         *)
(* A DataFrame is [columns, rows]: the column labels and the rows, each    *)
(* row as long as columns.  Column indices are those of the code, from 0.  *)
(***************************************************************************)
\* the chain of comparisons of col_clean: the text compared and the key set
HeaderKeys ==
    {<<<<"i", "d">>, "id">>,
     <<<<"r", "e", "f", "e", "r", "r", "a", "l", "i", "d">>, "referralId">>,
     <<<<"n", "a", "m", "e">>, "name">>,
     <<<<"p", "r", "o", "d", "u", "c", "e", "r">>, "producer">>,
     <<<<"o", "r", "i", "g", "i", "n", "c", "o", "u", "n", "t", "r", "y">>, "originCountry">>,
     <<<<"r", "e", "g", "i", "o", "n">>, "region">>,
     <<<<"g", "r", "a", "p", "e", "t", "y", "p", "e">>, "grapeType">>,
     <<<<"w", "i", "n", "e", "t", "y", "p", "e">>, "wineType">>,
     <<<<"h", "a", "r", "v", "e", "s", "t">>, "harvest">>,
     <<<<"a", "l", "c", "o", "h", "o", "l", "l", "e", "v", "e", "l">>, "alcoholLevel">>,
     <<<<"a", "g", "i", "n", "g", "p", "r", "o", "c", "e", "s", "s">>, "agingProcess">>,
     <<<<"h", "a", "r", "m", "o", "n", "i", "z", "a", "t", "i", "o", "n">>, "harmonization">>,
     <<<<"t", "a", "s", "t", "e", "d", "e", "s", "c", "r", "i", "p", "t", "i", "o", "n">>, "tasteDescription">>}

\* what clean_text(col).lower() is
col_clean(col) == Lower(clean_text(col, FALSE))

\* one of the comparisons of the chain holds for the text c
IsHeader(c) == \E p \in HeaderKeys : p[1] = c

\* the key of the branch taken for the text c
KeyOf(c) == (CHOOSE p \in HeaderKeys : p[1] = c)[2]

\* header_mapping[key] = i
Put(mapping, key, i) ==
    [k \in DOMAIN mapping \cup {key} |-> IF k = key THEN i ELSE mapping[k]]

RECURSIVE MapColumnsFirst(_, _, _)
\* MapColumns keeping the first column of a key instead of the last
MapColumnsFirst(columns, i, mapping) ==
    IF i >= Len(columns) THEN mapping
    ELSE LET c == col_clean(columns[i + 1])
         IN  IF IsHeader(c) /\ KeyOf(c) \notin DOMAIN mapping
             THEN MapColumnsFirst(columns, i + 1, Put(mapping, KeyOf(c), i))
             ELSE MapColumnsFirst(columns, i + 1, mapping)

RECURSIVE MapColumns(_, _, _)
\* the loop over enumerate(df.columns), from index i on
MapColumns(columns, i, mapping) ==
    IF i >= Len(columns) THEN mapping
    ELSE LET c == col_clean(columns[i + 1])
         IN  IF IsHeader(c)
             THEN MapColumns(columns, i + 1, Put(mapping, KeyOf(c), i))
             ELSE MapColumns(columns, i + 1, mapping)

header_mapping(columns) == MapColumns(columns, 0, <<>>)

\* mapping.get returning the default whatever the mapping holds
GetDefault(mapping, key, default) == default

\* mapping.get(key, default)
Get(mapping, key, default) ==
    IF key \in DOMAIN mapping THEN mapping[key] ELSE default

\* row.iloc[mapping.get(key, default)] if mapping.get(key, default) < len(row) else ""
Cell(row, mapping, key, default) ==
    LET i == Get(mapping, key, default)
    IN  IF i < Len(row) THEN row[i + 1] ELSE StrVal(<<>>)

\* the wine object of one row
Wine(row, mapping) ==
    [id               |-> parse_number(Cell(row, mapping, "id", 0), FALSE),
     referralId       |-> parse_number(Cell(row, mapping, "referralId", 1), FALSE),
     name             |-> clean_text(Cell(row, mapping, "name", 2), FALSE),
     producer         |-> clean_text(Cell(row, mapping, "producer", 3), FALSE),
     originCountry    |-> clean_text(Cell(row, mapping, "originCountry", 4), FALSE),
     region           |-> clean_text(Cell(row, mapping, "region", 5), FALSE),
     grapeType        |-> clean_text(Cell(row, mapping, "grapeType", 6), FALSE),
     wineType         |-> clean_text(Cell(row, mapping, "wineType", 7), FALSE),
     harvest          |-> parse_number(Cell(row, mapping, "harvest", 8), FALSE),
     alcoholLevel     |-> parse_number(Cell(row, mapping, "alcoholLevel", 9), TRUE),
     price            |-> None,
     importedBy       |-> None,
     agingProcess     |-> clean_text(Cell(row, mapping, "agingProcess", 10), FALSE),
     harmonization    |-> clean_text(Cell(row, mapping, "harmonization", 11), TRUE),
     tasteDescription |-> clean_text(Cell(row, mapping, "tasteDescription", 12), FALSE)]

\* a call of parse_number in the wine object ends with an exception
WineRaises(w) ==
    \/ IsException(w.id)
    \/ IsException(w.referralId)
    \/ IsException(w.harvest)
    \/ IsException(w.alcoholLevel)

\* the truth value of a number: None and zero are false
NumberTruthy(r) == r.kind # "None" /\ ~(r.kind \in {"int", "float"} /\ r.m = 0)

\* if wine['name'] or wine['id']
HasNameOrId(w) == w.name # <<>> \/ NumberTruthy(w.id)

\* the wines list returned, or raised = TRUE when an exception leaves the function
convert_csv_to_json(d) ==
    LET mapping == header_mapping(d.columns)
        all == [i \in 1..Len(d.rows) |-> Wine(d.rows[i], mapping)]
    IN  IF \E i \in 1..Len(all) : WineRaises(all[i])
        THEN [raised |-> TRUE, wines |-> <<>>]
        ELSE [raised |-> FALSE, wines |-> SelectSeq(all, HasNameOrId)]

(***************************************************************************)
(* create_full_json_structure.  The static texts are kept as strings; the  *)
(* 13-digit wineId values do not fit a model integer and are strings too.  *)
(***************************************************************************)
Steak(id, name, cutType) ==
    [id |-> id, name |-> name, producer |-> "Puro Taglio", cutType |-> cutType,
     originCountry |-> "Brasil", breed |-> "Angus", tasteDescription |-> "",
     price |-> 0, referralId |-> id]

steaks_data ==
    <<Steak(2009, "Short Rib Angus", "Short Rib"),
      Steak(2026, "Prime Rib Angus", "Prime Rib"),
      Steak(2013, "T-Bone Steak Angus", "T-Bone Steak"),
      Steak(2004, "Flat Iron Angus", "Flat Iron")>>

sommelier_suggestions ==
    <<[name |-> "Kit Executivo - 10% OFF", wineId |-> "3760245210066",
       steakId |-> 2009, id |-> "executivo"],
      [name |-> "Kit Elegante - 15% OFF", wineId |-> "7798145140141",
       steakId |-> 2026, id |-> "elegante"],
      [name |-> "Kit Premium - 15% OFF", wineId |-> "8052080990001",
       steakId |-> 2013, id |-> "premium"]>>

\* create_full_json_structure leaving the last steak out
create_full_json_structure_short(wines_data) ==
    [wine |-> wines_data,
     steak |-> SubSeq(steaks_data, 1, Len(steaks_data) - 1),
     sommelierSuggestions |-> sommelier_suggestions]

create_full_json_structure(wines_data) ==
    [wine |-> wines_data,
     steak |-> steaks_data,
     sommelierSuggestions |-> sommelier_suggestions]

(***************************************************************************)
(* The inputs of the model.                                                *)
(***************************************************************************)
\* every str of at most n characters of the alphabet
StringsUpTo(alphabet, n) == UNION {[1..k -> alphabet] : k \in 0..n}

CleanAlphabet == {"a", "n", "N", " ", "\n", "\r", "\""}

CleanInputs ==
    {StrVal(s) : s \in StringsUpTo(CleanAlphabet, MaxLen)}
        \cup {IntVal(<<"0">>), IntVal(<<"7">>), NaN}

NumAlphabet == {"0", "1", ".", "%", " ", "a", "-"}

\* the texts the documentation names, and the spellings of infinity and nan
NumExamples ==
    {<<"H", "a", "r", "v", "e", "s", "t", ":", " ", "2", "0", "1", "8", " ",
       "v", "i", "n", "t", "a", "g", "e">>,
     <<"a", "b", "c">>,
     <<"1", "3", ".", "5", "%">>,
     <<"2", "0", "1", "8">>,
     <<"a", "2", "0", "1", "8">>,
     <<"2", "0", "1", "8", "5">>,
     <<"i", "n", "f">>,
     <<"-", "I", "n", "f">>,
     <<"i", "n", "f", "i", "n", "i", "t", "y">>,
     <<"n", "a", "n">>,
     <<" ", "n", "a", "n">>}

NumInputs ==
    {StrVal(s) : s \in StringsUpTo(NumAlphabet, MaxNumLen) \cup NumExamples}
        \cup {IntVal(<<"0">>), IntVal(<<"7">>), NaN, FloatVal(<<"i", "n", "f">>)}

EmptyDf == [columns |-> <<>>, rows |-> <<>>]

NoData == <<>>

(***************************************************************************)
(* clean_text applied to a value, and again to what it returned.           *)
(***************************************************************************)
InitClean ==
    /\ pc = "start"
    /\ text \in CleanInputs
    /\ flag \in BOOLEAN
    /\ out = <<>>
    /\ out2 = <<>>
    /\ df = EmptyDf
    /\ wines = <<>>
    /\ complete_data = NoData

CleanText ==
    /\ pc = "start"
    /\ out' = clean_text(text, flag)
    /\ pc' = "cleaned"
    /\ UNCHANGED <<text, flag, out2, df, wines, complete_data>>

CleanAgain ==
    /\ pc = "cleaned"
    /\ out2' = clean_text(StrVal(out), flag)
    /\ pc' = "recleaned"
    /\ UNCHANGED <<text, flag, out, df, wines, complete_data>>

NextClean == CleanText \/ CleanAgain

SpecClean == InitClean /\ [][NextClean]_vars

(***************************************************************************)
(* parse_number applied to a value.                                        *)
(***************************************************************************)
InitNum ==
    /\ pc = "start"
    /\ text \in NumInputs
    /\ flag \in BOOLEAN
    /\ out = None
    /\ out2 = <<>>
    /\ df = EmptyDf
    /\ wines = <<>>
    /\ complete_data = NoData

ParseNumber ==
    /\ pc = "start"
    /\ LET r == parse_number(text, flag)
       IN  /\ out' = r
           /\ pc' = IF IsException(r) THEN "raised" ELSE "returned"
    /\ UNCHANGED <<text, flag, out2, df, wines, complete_data>>

NextNum == ParseNumber

SpecNum == InitNum /\ [][NextNum]_vars

(***************************************************************************)
(* main: a file is uploaded and read, the button converts it.              *)
(***************************************************************************)
HeaderVals ==
    {StrVal(<<"i", "d">>),
     StrVal(<<"N", "a", "m", "e", " ">>),
     StrVal(<<"a", "l", "c", "o", "h", "o", "l", "L", "e", "v", "e", "l">>),
     StrVal(<<"f", "o", "o">>)}

CellVals == {NaN, StrVal(<<"0">>), StrVal(<<"7">>)}

Init ==
    /\ pc = "idle"
    /\ text = StrVal(<<>>)
    /\ flag = FALSE
    /\ out = <<>>
    /\ out2 = <<>>
    /\ df = EmptyDf
    /\ wines = <<>>
    /\ complete_data = NoData

\* df = pd.read_csv(uploaded_file): at least one column, every row as wide
Upload ==
    /\ pc = "idle"
    /\ \E w \in 1..MaxCols, n \in 0..MaxRows :
          \E h \in [1..w -> HeaderVals], r \in [1..n -> [1..w -> CellVals]] :
             df' = [columns |-> h, rows |-> r]
    /\ pc' = "uploaded"
    /\ UNCHANGED <<text, flag, out, out2, wines, complete_data>>

\* pd.read_csv raises: the message of the except branch is shown
UploadFails ==
    /\ pc = "idle"
    /\ pc' = "error"
    /\ UNCHANGED <<text, flag, out, out2, df, wines, complete_data>>

\* the Convert button: convert_csv_to_json, then create_full_json_structure
Convert ==
    /\ pc = "uploaded"
    /\ LET r == convert_csv_to_json(df)
       IN  IF r.raised
           THEN /\ pc' = "error"
                /\ UNCHANGED <<wines, complete_data>>
           ELSE /\ pc' = "converted"
                /\ wines' = r.wines
                /\ complete_data' = create_full_json_structure(r.wines)
    /\ UNCHANGED <<text, flag, out, out2, df>>

Next == Upload \/ UploadFails \/ Convert

Spec == Init /\ [][Next]_vars

(***************************************************************************)
(* Properties of clean_text, under SpecClean.                              *)
(***************************************************************************)
\* a value that is empty, only whitespace, or nan in any letter case
EmptyBlankOrNan(v) ==
    \/ Len(v.s) = 0
    \/ \A i \in 1..Len(v.s) : v.s[i] \in Whitespace
    \/ /\ Len(v.s) = 3
       /\ v.s[1] \in {"n", "N"}
       /\ v.s[2] \in {"a", "A"}
       /\ v.s[3] \in {"n", "N"}

\* C1: clean_text is idempotent: in both modes, cleaning what clean_text
\* returned gives it back unchanged.
C1_Idempotent == pc = "recleaned" => out2 = out

\* C5: clean_text returns the empty string for every value that is empty,
\* only whitespace, or "nan" in any letter case, in both modes.
C5_AbsentCleansToEmpty ==
    (pc = "cleaned" /\ EmptyBlankOrNan(text)) => out = <<>>

C5_Witness ==
    /\ pc = "cleaned"
    /\ text = StrVal(<<"N", "a", "N">>)
    /\ flag
    /\ out = <<>>

\* the text without one pair of wrapping double quotes
RefUnquote(s) ==
    IF Len(s) >= 2 /\ s[1] = "\"" /\ s[Len(s)] = "\""
    THEN SubSeq(s, 2, Len(s) - 1)
    ELSE s

RECURSIVE RefLinesFrom(_, _, _)
\* the lines of s from position i on, where \r\n, \r and \n each end a line
RefLinesFrom(s, i, cur) ==
    IF i > Len(s) THEN <<cur>>
    ELSE IF s[i] = "\r" /\ i < Len(s) /\ s[i + 1] = "\n"
         THEN <<cur>> \o RefLinesFrom(s, i + 2, <<>>)
    ELSE IF s[i] \in {"\r", "\n"} THEN <<cur>> \o RefLinesFrom(s, i + 1, <<>>)
    ELSE RefLinesFrom(s, i + 1, Append(cur, s[i]))

RECURSIVE RefTrim(_)
\* the line without its leading and trailing whitespace
RefTrim(line) ==
    IF Len(line) = 0 THEN line
    ELSE IF line[1] \in Whitespace THEN RefTrim(Tail(line))
    ELSE IF line[Len(line)] \in Whitespace
         THEN RefTrim(SubSeq(line, 1, Len(line) - 1))
    ELSE line

RECURSIVE RefJoin(_)
\* the non-blank lines, trimmed, in order, each but the last followed by \n
RefJoin(lines) ==
    IF Len(lines) = 0 THEN <<>>
    ELSE LET first == RefTrim(Head(lines))
             rest == RefJoin(Tail(lines))
         IN  IF first = <<>> THEN rest
             ELSE IF rest = <<>> THEN first
             ELSE first \o <<"\n">> \o rest

RefCleanLines(s) == RefJoin(RefLinesFrom(RefUnquote(s), 1, <<>>))

\* no \r, no empty line, no line that starts or ends with whitespace
WellFormedLines(s) ==
    /\ \A i \in 1..Len(s) : s[i] # "\r"
    /\ \A i \in 1..Len(s) :
          s[i] \in Whitespace =>
              /\ i > 1 /\ i < Len(s)
              /\ s[i - 1] \notin Whitespace \/ s[i] # "\n"
              /\ s[i - 1] # "\n" /\ s[i + 1] # "\n"

CleansToEmptyFirst(v) ==
    Falsy(v) \/ EmptyBlankOrNan(v) \/ Str(v) = <<"\"">>

C3_NeverRaises ==
    pc # "start" => out.kind \in {"None", "int", "float", "inf", "nan"}

\* the first position of s where four digits stand alone as a word
RefYearAt(s, i) ==
    /\ i + 3 <= Len(s)
    /\ \A k \in i..(i + 3) : s[k] \in Digits
    /\ i > 1 => s[i - 1] \notin WordChars
    /\ i + 3 < Len(s) => s[i + 4] \notin WordChars

RefHasYear(s) == \E i \in 1..Len(s) : RefYearAt(s, i)

RefFirstYear(s) ==
    LET i == CHOOSE i \in 1..Len(s) :
                 RefYearAt(s, i) /\ \A j \in 1..(i - 1) : ~RefYearAt(s, j)
    IN  1000 * DigitVal(s[i]) + 100 * DigitVal(s[i + 1])
            + 10 * DigitVal(s[i + 2]) + DigitVal(s[i + 3])

\* the integer parse of the whole text, None when it fails in any way
RefIntOrNone(s) ==
    LET r == IntOfFloat(Float(s))
    IN  IF r.kind = "int" THEN r ELSE None

\* C6: with is_float false parse_number returns the integer of the first
\* run of 4 digits of the cleaned text, else the integer parse of the whole
\* cleaned text, else None.
C6_YearOrInteger ==
    (pc # "start" /\ ~flag) =>
        LET s == clean_text(StrVal(Str(text)), FALSE)
        IN  out = IF EmptyBlankOrNan(text) \/ Falsy(text) THEN None
                  ELSE IF RefHasYear(s) THEN IntRes(RefFirstYear(s))
                  ELSE RefIntOrNone(s)

\* the first maximal run of digits and points of s, <<>> when there is none
RefToken(s) ==
    LET numeric == {i \in 1..Len(s) : s[i] \in Digits \cup {"."}}
    IN  IF numeric = {} THEN <<>>
        ELSE LET lo == CHOOSE i \in numeric : \A j \in numeric : i <= j
                 hi == CHOOSE j \in lo..Len(s) :
                           /\ \A k \in lo..j : k \in numeric
                           /\ (j + 1) \notin numeric
             IN  SubSeq(s, lo, hi)

\* the token read as a decimal and divided by 100, None when it is none
RefPercent(token) ==
    LET r == Float(token)
    IN  IF token # <<>> /\ r.kind = "float" THEN Normal(r.m, r.e - 2) ELSE None

\* C7: with is_float true parse_number returns the leading numeric token
\* of the cleaned text divided by 100, and None when the text is empty or
\* has no numeric token that parses.
C7_Percentage ==
    (pc # "start" /\ flag) =>
        out = IF EmptyBlankOrNan(text) \/ Falsy(text) THEN None
              ELSE RefPercent(RefToken(clean_text(StrVal(Str(text)), FALSE)))

(***************************************************************************)
(* Properties of convert_csv_to_json and create_full_json_structure,       *)
(* under Spec.                                                             *)
(***************************************************************************)
\* the 13 canonical fields with their fixed positional indices
Fallback ==
    [id |-> 0, referralId |-> 1, name |-> 2, producer |-> 3,
     originCountry |-> 4, region |-> 5, grapeType |-> 6, wineType |-> 7,
     harvest |-> 8, alcoholLevel |-> 9, agingProcess |-> 10,
     harmonization |-> 11, tasteDescription |-> 12]

\* the canonical name a column label stands for, "" when it stands for none
RefFieldOf(col) ==
    LET c == col_clean(col)
    IN  IF \E p \in HeaderKeys : p[1] = c
        THEN (CHOOSE p \in HeaderKeys : p[1] = c)[2]
        ELSE ""

\* what each column stands for
RefLabels(columns) == [i \in 1..Len(columns) |-> RefFieldOf(columns[i])]

\* the 0-based column a field is read from: the last column labelled with
\* it, else its fixed index
RefColumn(labels, f) ==
    LET named == {i \in 1..Len(labels) : labels[i] = f}
    IN  IF named = {} THEN Fallback[f]
        ELSE (CHOOSE i \in named : \A j \in named : j <= i) - 1

\* the cell of a row a field is read from, the empty cell when out of the row
RefCell(labels, row, f) ==
    LET c == RefColumn(labels, f)
    IN  IF c < Len(row) THEN row[c + 1] ELSE StrVal(<<>>)

RefWine(labels, row) ==
    [id               |-> parse_number(RefCell(labels, row, "id"), FALSE),
     referralId       |-> parse_number(RefCell(labels, row, "referralId"), FALSE),
     name             |-> clean_text(RefCell(labels, row, "name"), FALSE),
     producer         |-> clean_text(RefCell(labels, row, "producer"), FALSE),
     originCountry    |-> clean_text(RefCell(labels, row, "originCountry"), FALSE),
     region           |-> clean_text(RefCell(labels, row, "region"), FALSE),
     grapeType        |-> clean_text(RefCell(labels, row, "grapeType"), FALSE),
     wineType         |-> clean_text(RefCell(labels, row, "wineType"), FALSE),
     harvest          |-> parse_number(RefCell(labels, row, "harvest"), FALSE),
     alcoholLevel     |-> parse_number(RefCell(labels, row, "alcoholLevel"), TRUE),
     price            |-> None,
     importedBy       |-> None,
     agingProcess     |-> clean_text(RefCell(labels, row, "agingProcess"), FALSE),
     harmonization    |-> clean_text(RefCell(labels, row, "harmonization"), TRUE),
     tasteDescription |-> clean_text(RefCell(labels, row, "tasteDescription"), FALSE)]

\* the name cell or the id cell of the row is present
RefNameOrIdPresent(labels, row) ==
    \/ ~EmptyBlankOrNan(RefCell(labels, row, "name"))
    \/ ~EmptyBlankOrNan(RefCell(labels, row, "id"))

\* C2: a row is left out of the wine list exactly when its name cell and
\* its id cell are both empty; every other row is in the list.
C2_KeptIffNameOrId ==
    pc = "converted" =>
        LET labels == RefLabels(df.columns)
            Present(row) == RefNameOrIdPresent(labels, row)
            kept == SelectSeq(df.rows, Present)
        IN  wines = [i \in 1..Len(kept) |-> RefWine(labels, kept[i])]

\* C8: the document has exactly the keys wine, steak and
\* sommelierSuggestions, with 4 steaks, 3 suggestions and the wine list it
\* was given, whatever that list is.
C8_DocumentShape ==
    pc = "converted" =>
        /\ DOMAIN complete_data = {"wine", "steak", "sommelierSuggestions"}
        /\ Len(complete_data.steak) = 4
        /\ Len(complete_data.sommelierSuggestions) = 3
        /\ complete_data.wine = wines

C8_Witness ==
    /\ pc = "converted"
    /\ Len(wines) >= 1
    /\ complete_data.wine = wines
    /\ Len(complete_data.steak) = 4

\* C9: every field of every wine is read from the last column whose cleaned,
\* lowercased label is the field's name, else from the field's fixed index,
\* else (the index not being in the row) from an empty cell.
C9_FieldColumns ==
    pc = "converted" =>
        LET labels == RefLabels(df.columns)
            all == [i \in 1..Len(df.rows) |-> RefWine(labels, df.rows[i])]
        IN  wines = SelectSeq(all, HasNameOrId)

\* two columns are labelled name, the fixed index 0 serves id, and
\* referralId, of index 1, has a cell while producer, of index 3, has none
C9_Witness ==
    /\ pc = "converted"
    /\ Len(df.columns) = 2
    /\ RefFieldOf(df.columns[1]) = "name"
    /\ RefFieldOf(df.columns[2]) = "name"
    /\ Len(df.rows) = 1
    /\ df.rows[1][1] # df.rows[1][2]
    /\ Len(wines) = 1
    /\ wines[1].name = clean_text(df.rows[1][2], FALSE)
    /\ wines[1].id = parse_number(df.rows[1][1], FALSE)

\* the table with the cell of row r (from 1) and column c (from 1) set to v
WithCell(d, r, c, v) == [d EXCEPT !.rows[r][c] = v]

\* the columns (from 1) whose label stands for no canonical field
Unrecognized(labels) == {c \in 1..Len(labels) : labels[c] = ""}

\* the columns (from 1) some field is read from
ColumnsRead(labels) == {RefColumn(labels, f) + 1 : f \in DOMAIN Fallback}

=============================================================================
